---- MODULE Spec2Model ----
(***************************************************************************)
(* Mind Journal API (main.py, schemas.py): POST /add-entry, GET /history   *)
(* and GET /, with the Gemini client and the Supabase "entries" table as   *)
(* external collaborators.  Every request is a process; a request of       *)
(* /add-entry takes one step per outbound call, so that requests           *)
(* interleave at the calls.                                                *)
(***************************************************************************)
EXTENDS Integers, Sequences, FiniteSets, TLC

\* ------------------------------------------------------------------ bounds
MaxRequests == 3

Requests == 1..MaxRequests

\* ------------------------------------------------- schemas.py: the request
min_length == 1
max_length == 10000

\* A string is its text and its length (a text of 10000 characters is not
\* written out).
Contents ==
    { [text |-> "",  len |-> 0],
      [text |-> "a", len |-> 1],
      [text |-> "b", len |-> 10000],
      [text |-> "c", len |-> 10001] }

\* The model without min_length.
RequestValidNoMinLength(content) == content.len <= max_length

JournalEntryRequestValid(content) ==
    /\ content.len >= min_length
    /\ content.len <= max_length

\* ------------------------------------------------- main.py: analyze_with_ai
PromptPrefix == "Analyze this journal entry for mood and provide a short supportive tip: "

Prompt(text) ==
    [text |-> PromptPrefix \o text.text, len |-> Len(PromptPrefix) + text.len]

\* A Python value that is either a dict with the three fields, or None.
Dict(mood, score, tip) == [kind |-> "dict", mood |-> mood, score |-> score, tip |-> tip]
None == [kind |-> "None"]

Fallback == Dict("Neutral", "0.5", "I'm listening. Tell me more about your day.")

\* What generate_content can do: raise (network, quota, ...), or return a
\* response whose .parsed is the parsed object, or a response whose .parsed is
\* None (the text of the response is no JSON, or there is no text).
ProviderObjects == { Dict("Happy", "0.9", "Keep it up!") }
ProviderOutcomes ==
    { [kind |-> "parsed", parsed |-> d] : d \in ProviderObjects }
      \cup { [kind |-> "unparsed", parsed |-> None] }
      \cup { [kind |-> "raise", parsed |-> None] }

\* The value analyze_with_ai returns, for an outcome of the provider call.
analyze_with_ai(outcome) ==
    IF outcome.kind = "raise" THEN Fallback ELSE outcome.parsed

\* ------------------------------------------------------------- the store
\* A row of the "entries" table.
Row(id, created_at, payload) ==
    [id |-> id, created_at |-> created_at,
     content |-> payload.content, mood_label |-> payload.mood_label,
     sentiment_score |-> payload.sentiment_score,
     supportive_tip |-> payload.supportive_tip]

RowsOf(s) == { s[i] : i \in 1..Len(s) }

Newest(rows) == CHOOSE x \in rows : \A y \in rows : y.created_at <= x.created_at
Oldest(rows) == CHOOSE x \in rows : \A y \in rows : y.created_at >= x.created_at

\* .order("created_at") without desc=True
RECURSIVE OrderAscending(_)
OrderAscending(rows) ==
    IF rows = {} THEN << >>
    ELSE <<Oldest(rows)>> \o OrderAscending(rows \ {Oldest(rows)})

\* .order("created_at", desc=True)
RECURSIVE OrderByCreatedAt(_)
OrderByCreatedAt(rows) ==
    IF rows = {} THEN << >>
    ELSE <<Newest(rows)>> \o OrderByCreatedAt(rows \ {Newest(rows)})

\* ------------------------------------------------------------------ state
VARIABLES
    pc,         \* pc[r]: where request r is
    request,    \* request[r]: the route and the body of request r
    ai_data,    \* ai_data[r]: add_entry's local ai_data
    response,   \* response[r]: the status and the body sent to the client
    entries,    \* the rows of the "entries" table
    nextId,     \* the store's id generator
    clock,      \* the store's clock, read at insert time
    trace       \* trace[r]: what request r has done (history variable)

vars == <<pc, request, ai_data, response, entries, nextId, clock, trace>>

NoRequest == [route |-> "none", content |-> [text |-> "", len |-> 0]]
NoResponse == [status |-> 0, body |-> [detail |-> ""]]
NoTrace ==
    [aiCalls |-> 0, aiOutcome |-> "none", provided |-> None,
     prompt |-> [text |-> "", len |-> 0],
     insertCalls |-> 0, insertOutcome |-> "none", rows |-> {}, order |-> << >>,
     seen |-> {}]

Init ==
    /\ pc = [r \in Requests |-> "idle"]
    /\ request = [r \in Requests |-> NoRequest]
    /\ ai_data = [r \in Requests |-> None]
    /\ response = [r \in Requests |-> NoResponse]
    /\ entries = {}
    /\ nextId = 1
    /\ clock = 0
    /\ trace = [r \in Requests |-> NoTrace]

\* Requests are numbered in the order they arrive.
Arrives(r) ==
    /\ pc[r] = "idle"
    /\ IF r = 1 THEN TRUE ELSE pc[r - 1] # "idle"

Respond(r, status, body) ==
    /\ response' = [response EXCEPT ![r] = [status |-> status, body |-> body]]
    /\ pc' = [pc EXCEPT ![r] = "done"]

\* ------------------------------------------------------ POST /add-entry
\* The body is validated against JournalEntryRequest before add_entry runs.
ValidationDetail(content) ==
    IF content.len < min_length THEN "string_too_short" ELSE "string_too_long"

PostAddEntry(r) ==
    /\ Arrives(r)
    /\ \E content \in Contents :
        /\ request' = [request EXCEPT ![r] = [route |-> "add-entry", content |-> content]]
        /\ IF JournalEntryRequestValid(content)
           THEN /\ pc' = [pc EXCEPT ![r] = "analyze"]
                /\ UNCHANGED response
           ELSE Respond(r, 422, [detail |-> ValidationDetail(content)])
    /\ UNCHANGED <<ai_data, entries, nextId, clock, trace>>

\* Step A: ai_data = await analyze_with_ai(request.content)
AnalyzeWithAi(r) ==
    /\ pc[r] = "analyze"
    /\ \E outcome \in ProviderOutcomes :
        /\ ai_data' = [ai_data EXCEPT ![r] = analyze_with_ai(outcome)]
        /\ trace' = [trace EXCEPT ![r].aiCalls = @ + 1,
                                  ![r].aiOutcome = outcome.kind,
                                  ![r].provided = outcome.parsed,
                                  ![r].prompt = Prompt(request[r].content),
                                  ![r].order = Append(@, "ai")]
    /\ pc' = [pc EXCEPT ![r] = "insert"]
    /\ UNCHANGED <<request, response, entries, nextId, clock>>

\* ai_data kept in one module-level variable: the first request to set it wins.
SharedAiData(r) ==
    LET S == { q \in Requests : ai_data[q].kind = "dict" } IN
    IF S = {} THEN None ELSE ai_data[CHOOSE q \in S : \A p \in S : q <= p]

\* The local ai_data of the request.
LocalAiData(r) == ai_data[r]

\* The prompt stored in place of the content.
PayloadOfPrompt(content, d) ==
    [content |-> Prompt(content), mood_label |-> d.mood,
     sentiment_score |-> d.score, supportive_tip |-> d.tip]

\* The dict handed to insert(); subscripting None raises TypeError.
Payload(content, d) ==
    [content |-> content, mood_label |-> d.mood,
     sentiment_score |-> d.score, supportive_tip |-> d.tip]

\* The table written as a whole instead of appended to.
TableReplace(table, row) == {row}

\* supabase.table("entries").insert(row).execute(), when the store accepts it.
TableInsert(table, row) == table \cup {row}

\* response.data[1], as the comment above the return has it.
HasSecondRecord(data) == Len(data) >= 2

\* response.data[0]; raises IndexError on an empty list.
HasInsertedRecord(data) == Len(data) >= 1
InsertedRecord(data) == data[1]

\* response_model=JournalEntryResponse keeps the six fields of the model.
JournalEntryResponse(row) ==
    [id |-> row.id, created_at |-> row.created_at, content |-> row.content,
     mood_label |-> row.mood_label, sentiment_score |-> row.sentiment_score,
     supportive_tip |-> row.supportive_tip]

\* detail=str(e)
ExceptionTextAsDetail(e) == e

\* except Exception as e: raise HTTPException(status_code=500, detail=...)
SaveErrorDetail(e) == "Failed to save entry to database."

\* The insert tried again after a failure.
RetryAfterSaveError == "insert"

\* The HTTPException ends the request.
AfterSaveError == "done"

SaveError(r, e) ==
    /\ response' = [response EXCEPT ![r] = [status |-> 500, body |-> [detail |-> SaveErrorDetail(e)]]]
    /\ pc' = [pc EXCEPT ![r] = AfterSaveError]

\* What the store can do with an insert: accept it and return the new row,
\* raise, or return no row.
InsertErrors == {"APIError: connection refused"}

\* Step B: the try block of add_entry.
AddEntryInsert(r) ==
    /\ pc[r] = "insert"
    /\ LET d == LocalAiData(r) IN
        IF d.kind # "dict"
        THEN /\ SaveError(r, "TypeError: 'NoneType' object is not subscriptable")
             /\ UNCHANGED <<entries, nextId, clock, trace>>
        ELSE LET row == Row(nextId, clock + 1, Payload(request[r].content, d)) IN
             \/ \* the store inserts the row and returns it
                /\ entries' = TableInsert(entries, row)
                /\ nextId' = nextId + 1
                /\ clock' = clock + 1
                /\ trace' = [trace EXCEPT ![r].insertCalls = @ + 1,
                                          ![r].insertOutcome = "inserted",
                                          ![r].rows = @ \cup {row},
                                          ![r].order = Append(@, "insert")]
                /\ IF HasInsertedRecord(<<row>>)
                   THEN Respond(r, 200, JournalEntryResponse(InsertedRecord(<<row>>)))
                   ELSE SaveError(r, "IndexError: list index out of range")
             \/ \* the insert raises
                /\ \E e \in InsertErrors : SaveError(r, e)
                /\ trace' = [trace EXCEPT ![r].insertCalls = @ + 1,
                                          ![r].insertOutcome = "raise",
                                          ![r].order = Append(@, "insert")]
                /\ UNCHANGED <<entries, nextId, clock>>
             \/ \* the insert reports no inserted row
                /\ IF HasInsertedRecord(<< >>)
                   THEN Respond(r, 200, JournalEntryResponse(InsertedRecord(<< >>)))
                   ELSE SaveError(r, "IndexError: list index out of range")
                /\ trace' = [trace EXCEPT ![r].insertCalls = @ + 1,
                                          ![r].insertOutcome = "empty",
                                          ![r].order = Append(@, "insert")]
                /\ UNCHANGED <<entries, nextId, clock>>
    /\ UNCHANGED <<request, ai_data>>

\* --------------------------------------------------------- GET /history
FetchErrorDetail(e) == "Failed to fetch history."
FetchErrors == {"APIError: connection refused"}

GetHistory(r) ==
    /\ Arrives(r)
    /\ request' = [request EXCEPT ![r].route = "history"]
    /\ \/ /\ Respond(r, 200, OrderByCreatedAt(entries))
          /\ trace' = [trace EXCEPT ![r].seen = entries]
       \/ /\ \E e \in FetchErrors : Respond(r, 500, [detail |-> FetchErrorDetail(e)])
          /\ UNCHANGED trace
    /\ UNCHANGED <<ai_data, entries, nextId, clock>>

\* ---------------------------------------------------------------- GET /
ReadRoot(r) ==
    /\ Arrives(r)
    /\ request' = [request EXCEPT ![r].route = "root"]
    /\ Respond(r, 200, [status |-> "Mind Journal API is Online"])
    /\ UNCHANGED <<ai_data, entries, nextId, clock, trace>>

Next ==
    \E r \in Requests :
        \/ PostAddEntry(r)
        \/ AnalyzeWithAi(r)
        \/ AddEntryInsert(r)
        \/ GetHistory(r)
        \/ ReadRoot(r)

Spec == Init /\ [][Next]_vars

\* ================================================================ claims
AddEntry(r) == request[r].route = "add-entry"
History(r) == request[r].route = "history"
Done(r) == pc[r] = "done"
OutOfRange(content) == content.len = 0 \/ content.len > 10000
InRange(content) == content.len >= 1 /\ content.len <= 10000
SaveFailure == [detail |-> "Failed to save entry to database."]
FallbackRow(row) ==
    /\ row.mood_label = "Neutral"
    /\ row.sentiment_score = "0.5"
    /\ row.supportive_tip = "I'm listening. Tell me more about your day."

\* C1: an add-entry request whose content has length 0 or more than 10000 is
\* answered 422 at once, with no AI call, no insert and no row of its own.
C1_InvalidContentRejected ==
    \A r \in Requests :
        (AddEntry(r) /\ OutOfRange(request[r].content)) =>
            /\ Done(r)
            /\ response[r].status = 422
            /\ trace[r].aiCalls = 0
            /\ trace[r].insertCalls = 0
            /\ trace[r].rows = {}
            /\ \A row \in entries : row.content # request[r].content

C1_Witness ==
    \E r, q \in Requests :
        /\ AddEntry(r) /\ request[r].content.len = 0 /\ response[r].status = 422
        /\ AddEntry(q) /\ request[q].content.len = 10001 /\ response[q].status = 422
        /\ entries # {}

\* C2: when the AI call of a valid add-entry request fails (it raises, or its
\* response cannot be parsed), the failure is never what the client sees as an
\* error, and if the insert succeeds the request succeeds with the fallback
\* values in the response and in the row.
C2_AiFailureAbsorbed ==
    \A r \in Requests :
        (AddEntry(r) /\ InRange(request[r].content) /\ Done(r)
           /\ trace[r].aiOutcome \in {"raise", "unparsed"}) =>
            /\ response[r].status = 500 => trace[r].insertOutcome \in {"raise", "empty"}
            /\ trace[r].insertOutcome = "inserted" =>
                /\ response[r].status = 200
                /\ FallbackRow(response[r].body)
                /\ \A row \in trace[r].rows : row \in entries /\ FallbackRow(row)

\* C3: an insert that fails, or reports no inserted row, ends the request with
\* 500 and exactly the generic detail, whatever the exception was.
C3_SaveFailureIsGeneric500 ==
    \A r \in Requests :
        (AddEntry(r) /\ trace[r].insertOutcome \in {"raise", "empty"}) =>
            /\ Done(r)
            /\ response[r].status = 500
            /\ response[r].body = SaveFailure

C3_Witness ==
    \E r, q \in Requests :
        /\ trace[r].insertOutcome = "raise" /\ response[r].status = 500
        /\ trace[q].insertOutcome = "empty" /\ response[q].status = 500

\* C4: an add-entry request has either added one complete row and answered
\* 200, or added no row; a request answered 422 or 500 has no row.
C4_NoPartialSuccess ==
    \A r \in Requests :
        AddEntry(r) =>
            /\ Cardinality(trace[r].rows) <= 1
            /\ trace[r].rows \subseteq entries
            /\ \A row \in trace[r].rows :
                /\ Done(r) /\ response[r].status = 200
                /\ row.content = request[r].content
                /\ \E d \in ProviderObjects \cup {Fallback} :
                    /\ row.mood_label = d.mood
                    /\ row.sentiment_score = d.score
                    /\ row.supportive_tip = d.tip
            /\ (Done(r) /\ response[r].status = 200) => Cardinality(trace[r].rows) = 1
            /\ (Done(r) /\ response[r].status \in {422, 500}) => trace[r].rows = {}

C4_Witness ==
    \E r, q, p \in Requests :
        /\ AddEntry(r) /\ response[r].status = 200 /\ Cardinality(trace[r].rows) = 1
        /\ AddEntry(q) /\ response[q].status = 500 /\ trace[q].rows = {}
        /\ AddEntry(p) /\ response[p].status = 422 /\ trace[p].rows = {}

\* C5: a successful history call returns every row of the table, newest
\* first: strictly descending created_at, a row inserted later before a row
\* inserted earlier.
C5_HistoryNewestFirst ==
    \A r \in Requests :
        (History(r) /\ Done(r) /\ response[r].status = 200) =>
            LET h == response[r].body IN
            /\ RowsOf(h) = trace[r].seen
            /\ Len(h) = Cardinality(trace[r].seen)
            /\ \A i, j \in 1..Len(h) :
                i < j => /\ h[i].created_at > h[j].created_at
                         /\ h[i].id > h[j].id

C5_Witness ==
    \E r \in Requests :
        /\ History(r) /\ response[r].status = 200
        /\ Len(response[r].body) = 2
        /\ response[r].body[1].id = 2
        /\ response[r].body[2].id = 1

\* C6: a successful add-entry returns the submitted content verbatim and its
\* row carries the same content, which is not the prompt sent to the provider.
C6_ContentVerbatim ==
    \A r \in Requests :
        (AddEntry(r) /\ Done(r) /\ response[r].status = 200) =>
            /\ InRange(request[r].content)
            /\ response[r].body.content = request[r].content
            /\ \E row \in trace[r].rows :
                /\ row \in entries
                /\ row.id = response[r].body.id
                /\ row.content = request[r].content
            /\ trace[r].prompt # request[r].content

C6_Witness ==
    \E r, q \in Requests :
        /\ AddEntry(r) /\ response[r].status = 200 /\ request[r].content.len = 10000
        /\ AddEntry(q) /\ response[q].status = 200 /\ request[q].content.len = 1

\* C7: whatever the provider call does, analyze_with_ai returns an object
\* with mood, score and tip: the provider's parsed result or the fallback.
C7_AnalyzeTotal ==
    \A r \in Requests :
        trace[r].aiCalls >= 1 =>
            /\ ai_data[r].kind = "dict"
            /\ ai_data[r] = trace[r].provided \/ ai_data[r] = Fallback

\* C8: a valid add-entry request makes exactly one provider call, then at most
\* one insert attempt; nothing is tried again and it has at most one row.
C8_OneCallEachNoRetry ==
    \A r \in Requests :
        (AddEntry(r) /\ InRange(request[r].content)) =>
            /\ trace[r].order \in { << >>, <<"ai">>, <<"ai", "insert">> }
            /\ trace[r].aiCalls = (IF pc[r] = "analyze" THEN 0 ELSE 1)
            /\ trace[r].insertCalls <= 1
            /\ trace[r].insertCalls = 1 => Done(r)
            /\ Cardinality(trace[r].rows) <= 1

C8_Witness ==
    \E r, q \in Requests :
        /\ Done(r) /\ trace[r].order = <<"ai", "insert">>
        /\ trace[r].aiOutcome = "raise" /\ trace[r].insertOutcome = "raise"
        /\ Done(q) /\ trace[q].order = <<"ai", "insert">>
        /\ trace[q].insertOutcome = "inserted"

\* C9: the table is append-only: a step keeps every row as it is, history and
\* the root route leave the table alone, and the only change is one row added
\* by the insert step of an add-entry request.
RowsKept ==
    /\ entries \subseteq entries'
    /\ \A r \in Requests :
        (pc[r] # pc'[r] /\ request'[r].route \in {"history", "root"}) => entries' = entries
    /\ entries' # entries =>
        /\ Cardinality(entries' \ entries) = 1
        /\ \E r \in Requests : AddEntry(r) /\ pc[r] = "insert" /\ pc'[r] = "done"

C9_AppendOnly == [][RowsKept]_vars

C9_Witness ==
    /\ Cardinality(entries) = 2
    /\ \E r \in Requests : History(r) /\ Done(r)

\* C10: requests do not affect each other: every row belongs to one request
\* and pairs that request's content with the analysis that request obtained,
\* the table has one row per successful insert, and the answer to a request
\* is decided by its own content and its own provider and store outcomes.
AnalysisOf(r) ==
    IF trace[r].aiOutcome = "raise" THEN Fallback ELSE trace[r].provided

OwnStatus(r) ==
    IF OutOfRange(request[r].content) THEN 422
    ELSE IF trace[r].aiOutcome = "unparsed" THEN 500
    ELSE IF trace[r].insertOutcome = "inserted" THEN 200 ELSE 500

C10_RequestsIndependent ==
    /\ entries = UNION { trace[r].rows : r \in Requests }
    /\ Cardinality(entries) =
         Cardinality({ r \in Requests : trace[r].insertOutcome = "inserted" })
    /\ \A r, q \in Requests : r # q => trace[r].rows \cap trace[q].rows = {}
    /\ \A r \in Requests :
        /\ \A row \in trace[r].rows :
            /\ row.content = request[r].content
            /\ AnalysisOf(r).kind = "dict"
            /\ row.mood_label = AnalysisOf(r).mood
            /\ row.sentiment_score = AnalysisOf(r).score
            /\ row.supportive_tip = AnalysisOf(r).tip
        /\ (AddEntry(r) /\ Done(r)) => response[r].status = OwnStatus(r)

C10_Witness ==
    \E r, q, p \in Requests :
        /\ r < q
        /\ AddEntry(r) /\ AddEntry(q)
        /\ response[r].status = 200 /\ response[q].status = 200
        /\ response[q].body.id < response[r].body.id
        /\ request[r].content # request[q].content
        /\ AnalysisOf(r) # AnalysisOf(q)
        /\ AddEntry(p) /\ response[p].status = 500

====
